---- MODULE Spec2Model ----
(***************************************************************************)
(* The RAG command-line program: main.py dispatches one sub-command per    *)
(* process run, `ingest` (src/ingestor.py) or `query` (src/retriever.py).  *)
(* The only state that outlives a command is the index persisted at        *)
(* INDEX_PATH.  The remote Bedrock calls, the document loaders and the     *)
(* FAISS store are the environment: each call either returns or raises.    *)
(***************************************************************************)
EXTENDS Integers, Sequences, FiniteSets, TLC

VARIABLES
    pc,           \* position of the running command
    command,      \* main: args.command
    run,          \* number of commands started so far
    cfg_dir,      \* directory named by DOCUMENT_PATH, as the command finds it
    def_dir,      \* DEFAULT_DOC_DIR, as the command finds it
    chosen_path,  \* load_and_split_documents: chosen_path
    pending,      \* load_and_split_documents: files the glob has still to yield
    docs,         \* load_and_split_documents: docs
    chunks,       \* main: chunks (the loader's return value)
    vectorstore,  \* the in-memory FAISS store (built by ingest, loaded by query)
    index,        \* the index persisted at INDEX_PATH
    retrieved,    \* run_query: docs
    response,     \* run_query: the returned dict
    outcome,      \* how the command ended
    stdout,       \* the messages main printed during the command
    calls,        \* the library / remote calls made during the command
    failure,      \* the steps of the command that raised
    prev_index,   \* the persisted index when the command started
    last_good     \* the chunks of the most recent ingest whose save_local returned

vars == <<pc, command, run, cfg_dir, def_dir, chosen_path, pending, docs, chunks,
          vectorstore, index, retrieved, response, outcome, stdout, calls,
          failure, prev_index, last_good>>

----------------------------------------------------------------------------
(* Bounds of the model *)

\* commands (ingest or query) run one after another
MaxCmds == 2
\* files in one listing of the configured documents directory
MaxFiles == 3

\* retriever.py: similarity_search_by_vector(query_vec, k=3)
K == 3

----------------------------------------------------------------------------
(* Python values *)

None == [isNone |-> TRUE, items |-> <<>>]
Some(s) == [isNone |-> FALSE, items |-> s]
\* `not x` for a value that is None or a list
Falsy(x) == x.isNone \/ x.items = <<>>

EmptyDict == <<>>

Min(a, b) == IF a <= b THEN a ELSE b

Range(s) == {s[i] : i \in 1..Len(s)}

----------------------------------------------------------------------------
(* The documents folder *)

\* The files a documents folder may hold.  `texts` is what the format's loader
\* yields when the read succeeds: one Document per element (one per page for
\* a PDF), the number being how many chunks the splitter cuts it into.
FileUniverse ==
    { [name |-> "a.txt",   suffix |-> ".txt",  is_file |-> TRUE,  readable |-> TRUE,  texts |-> <<1>>],
      [name |-> "b.PDF",   suffix |-> ".PDF",  is_file |-> TRUE,  readable |-> TRUE,  texts |-> <<1, 1>>],
      [name |-> "c.docx",  suffix |-> ".docx", is_file |-> TRUE,  readable |-> FALSE, texts |-> <<1>>],
      [name |-> "d.md",    suffix |-> ".md",   is_file |-> TRUE,  readable |-> TRUE,  texts |-> <<1>>],
      [name |-> "e.txt",   suffix |-> ".txt",  is_file |-> TRUE,  readable |-> TRUE,  texts |-> <<0>>],
      [name |-> "f.doc",   suffix |-> ".doc",  is_file |-> TRUE,  readable |-> TRUE,  texts |-> <<2>>],
      [name |-> "sub",     suffix |-> "",      is_file |-> FALSE, readable |-> FALSE, texts |-> <<>>] }

\* the order in which glob("**/*") yields the files of a folder
GlobRank(f) ==
    CASE f.name = "a.txt"  -> 1
      [] f.name = "c.docx" -> 2
      [] f.name = "b.PDF"  -> 3
      [] f.name = "sub"    -> 4
      [] f.name = "d.md"   -> 5
      [] f.name = "e.txt"  -> 6
      [] f.name = "f.doc"  -> 7
      [] f.name = "z.txt"  -> 8

RECURSIVE Glob(_)
Glob(files) ==
    IF files = {} THEN <<>>
    ELSE LET f == CHOOSE x \in files : \A y \in files : GlobRank(x) <= GlobRank(y)
         IN  <<f>> \o Glob(files \ {f})

\* A folder is missing, or holds a set of files.
Missing == [exists |-> FALSE, files |-> {}]
Folder(fs) == [exists |-> TRUE, files |-> fs]

CfgDirs ==
    {Missing} \cup {Folder(fs) : fs \in {s \in SUBSET FileUniverse : Cardinality(s) <= MaxFiles}}

DefaultFile == [name |-> "z.txt", suffix |-> ".txt", is_file |-> TRUE, readable |-> TRUE, texts |-> <<1>>]

DefDirs == {Missing, Folder({}), Folder({DefaultFile})}

\* DOCUMENT_PATH may be the empty string, and is then no candidate
Unset == [exists |-> FALSE, files |-> {}, unset |-> TRUE]

\* str.lower() on the suffixes of the universe
Lower(s) == IF s = ".PDF" THEN ".pdf" ELSE s

\* loader.load(): the Documents of a file that was read
LoaderLoad(f) ==
    [p \in 1..Len(f.texts) |->
        [source |-> f.name,
         page   |-> IF Lower(f.suffix) = ".pdf" THEN p ELSE 0,
         size   |-> f.texts[p]]]

\* ingestor.py 77-101: what one file adds to docs
FileDocs(f) ==
    LET file_ext == Lower(f.suffix) IN
    IF file_ext \in {".pdf", ".docx", ".doc", ".txt"}
    THEN IF f.readable THEN LoaderLoad(f) ELSE <<>>   \* except: log, continue
    ELSE <<>>                                         \* unsupported: skipped

\* the chunks the splitter cuts one Document into
ChunksOfDoc(r, d) == [i \in 1..d.size |-> [run |-> r, source |-> d.source, page |-> d.page, part |-> i]]

RECURSIVE SplitDocuments(_, _)
SplitDocuments(r, ds) ==
    IF ds = <<>> THEN <<>>
    ELSE ChunksOfDoc(r, Head(ds)) \o SplitDocuments(r, Tail(ds))

----------------------------------------------------------------------------
(* The persisted index *)

Absent == [kind |-> "absent", entries |-> <<>>]
Complete(es) == [kind |-> "complete", entries |-> es]
\* what a save_local that raised part-way leaves at INDEX_PATH
Partial(old, new) == [kind |-> "partial", entries |-> old \o new]

\* Path(INDEX_PATH).exists()
PathExists(ix) == ix.kind # "absent"

NoResponse == [none |-> TRUE]

Init ==
    /\ pc = "idle"
    /\ command = "none"
    /\ run = 0
    /\ cfg_dir = Missing
    /\ def_dir = Missing
    /\ chosen_path = "none"
    /\ pending = <<>>
    /\ docs = <<>>
    /\ chunks = None
    /\ vectorstore = None
    /\ index \in {Absent, Complete(<<>>)}
    /\ retrieved = <<>>
    /\ response = NoResponse
    /\ outcome = "none"
    /\ stdout = {}
    /\ calls = {}
    /\ failure = {}
    /\ prev_index = index
    /\ last_good = None

\* a command starts in a fresh process
StartCommand(c) ==
    /\ pc = "idle"
    /\ command' = c
    /\ run < MaxCmds
    /\ run' = run + 1
    /\ chosen_path' = "none"
    /\ pending' = <<>>
    /\ docs' = <<>>
    /\ chunks' = None
    /\ vectorstore' = None
    /\ retrieved' = <<>>
    /\ response' = NoResponse
    /\ outcome' = "running"
    /\ stdout' = {}
    /\ calls' = {}
    /\ failure' = {}
    /\ prev_index' = index
    /\ UNCHANGED <<index, last_good>>

----------------------------------------------------------------------------
(* ingest *)

\* main.py 81-83: the ingest command is entered
MainIngest ==
    /\ StartCommand("ingest")
    /\ \E c \in CfgDirs \cup {Unset}, d \in DefDirs :
          /\ cfg_dir' = c
          /\ def_dir' = d
    /\ pc' = "choose_path"

\* p.exists() and any(p.glob("**/*"))
Usable(p) == p.exists /\ p.files # {}

\* ingestor.py 41-57: the first candidate path that exists and is not empty
ChosenPath(c, d) ==
    LET candidate_paths == (IF "unset" \in DOMAIN c THEN <<>> ELSE <<"cfg">>) \o <<"def">>
        dir(p) == IF p = "cfg" THEN c ELSE d
        usable == {i \in 1..Len(candidate_paths) : Usable(dir(candidate_paths[i]))}
    IN  IF usable = {} THEN "none"
        ELSE candidate_paths[CHOOSE i \in usable : \A j \in usable : i <= j]

ChosenDir == IF chosen_path = "cfg" THEN cfg_dir ELSE def_dir

\* ingestor.py 41-70
ChoosePath ==
    /\ pc = "choose_path"
    /\ LET p == ChosenPath(cfg_dir, def_dir) IN
       /\ chosen_path' = p
       /\ IF p = "none"
          THEN /\ chunks' = None          \* return None
               /\ pending' = <<>>
               /\ pc' = "after_load"
          ELSE /\ pending' = Glob((IF p = "cfg" THEN cfg_dir ELSE def_dir).files)
               /\ chunks' = chunks
               /\ pc' = "load_loop"
    /\ UNCHANGED <<command, run, cfg_dir, def_dir, docs, vectorstore, index, retrieved,
                   response, outcome, stdout, calls, failure, prev_index, last_good>>

\* LoadFile with `break` for `continue` in the except branch: a file that cannot
\* be read ends the loop
LoadFile_AbortOnFailure ==
    /\ pc = "load_loop"
    /\ pending # <<>>
    /\ LET file_path == Head(pending)
           failed == /\ file_path.is_file
                     /\ Lower(file_path.suffix) \in {".pdf", ".docx", ".doc", ".txt"}
                     /\ ~file_path.readable
       IN
       /\ docs' = IF file_path.is_file THEN docs \o FileDocs(file_path) ELSE docs
       /\ failure' = IF failed THEN failure \cup {"read"} ELSE failure
       /\ pending' = IF failed THEN <<>> ELSE Tail(pending)
    /\ UNCHANGED <<pc, command, run, cfg_dir, def_dir, chosen_path, chunks, vectorstore, index,
                   retrieved, response, outcome, stdout, calls, prev_index, last_good>>

\* ingestor.py 73-101: one iteration of the loop over the files
LoadFile ==
    /\ pc = "load_loop"
    /\ pending # <<>>
    /\ LET file_path == Head(pending) IN
       /\ docs' = IF file_path.is_file THEN docs \o FileDocs(file_path) ELSE docs
       /\ failure' = IF file_path.is_file
                        /\ Lower(file_path.suffix) \in {".pdf", ".docx", ".doc", ".txt"}
                        /\ ~file_path.readable
                     THEN failure \cup {"read"} ELSE failure
    /\ pending' = Tail(pending)
    /\ UNCHANGED <<pc, command, run, cfg_dir, def_dir, chosen_path, chunks, vectorstore, index,
                   retrieved, response, outcome, stdout, calls, prev_index, last_good>>

\* ingestor.py 103-117: the loop is over
LoadFinish ==
    /\ pc = "load_loop"
    /\ pending = <<>>
    /\ chunks' = IF docs = <<>> THEN None ELSE Some(SplitDocuments(run, docs))
    /\ pc' = "after_load"
    /\ UNCHANGED <<command, run, cfg_dir, def_dir, chosen_path, pending, docs, vectorstore, index,
                   retrieved, response, outcome, stdout, calls, failure, prev_index, last_good>>

\* MainNoDocuments with `return` for `sys.exit(1)`
MainNoDocuments_Return ==
    /\ pc = "after_load"
    /\ Falsy(chunks)
    /\ stdout' = stdout \cup {"No documents found to ingest."}
    /\ outcome' = "exit0"
    /\ pc' = "idle"
    /\ UNCHANGED <<command, run, cfg_dir, def_dir, chosen_path, pending, docs, chunks, vectorstore,
                   index, retrieved, response, calls, failure, prev_index, last_good>>

\* main.py 84-86: if not chunks: print, sys.exit(1)
MainNoDocuments ==
    /\ pc = "after_load"
    /\ Falsy(chunks)
    /\ stdout' = stdout \cup {"No documents found to ingest."}
    /\ outcome' = "exit1"
    /\ pc' = "idle"
    /\ UNCHANGED <<command, run, cfg_dir, def_dir, chosen_path, pending, docs, chunks, vectorstore,
                   index, retrieved, response, calls, failure, prev_index, last_good>>

\* main.py 88, ingestor.py 120-145: create_and_store_embeddings is entered and
\* FAISS.from_documents embeds every chunk
FromDocuments ==
    /\ pc = "after_load"
    /\ ~Falsy(chunks)
    /\ calls' = calls \cup {"embed_documents"}
    /\ vectorstore' = Some(chunks.items)
    /\ pc' = "save"
    /\ UNCHANGED <<command, run, cfg_dir, def_dir, chosen_path, pending, docs, chunks, index,
                   retrieved, response, outcome, stdout, failure, prev_index, last_good>>

\* ingestor.py 145, 152-154: the embedding call raises; except logs, returns None
FromDocumentsFail ==
    /\ pc = "after_load"
    /\ ~Falsy(chunks)
    /\ calls' = calls \cup {"embed_documents"}
    /\ failure' = failure \cup {"embed_documents"}
    /\ vectorstore' = None
    /\ pc' = "after_store"
    /\ UNCHANGED <<command, run, cfg_dir, def_dir, chosen_path, pending, docs, chunks, index,
                   retrieved, response, outcome, stdout, prev_index, last_good>>

\* ingestor.py 146-150: save_local writes the store at INDEX_PATH, over what is there
SaveLocal ==
    /\ pc = "save"
    /\ calls' = calls \cup {"save_local"}
    /\ index' = Complete(vectorstore.items)
    /\ last_good' = Some(chunks.items)
    /\ pc' = "after_store"
    /\ UNCHANGED <<command, run, cfg_dir, def_dir, chosen_path, pending, docs, chunks, vectorstore,
                   retrieved, response, outcome, stdout, failure, prev_index>>

\* ingestor.py 146, 152-154: save_local raises.  It writes in place at INDEX_PATH,
\* so it raises before anything was written or with the location part-written;
\* except logs, returns None, and restores nothing.
SaveLocalFail ==
    /\ pc = "save"
    /\ calls' = calls \cup {"save_local"}
    /\ failure' = failure \cup {"save_local"}
    /\ index' \in {index, Partial(index.entries, vectorstore.items)}
    /\ vectorstore' = None
    /\ pc' = "after_store"
    /\ UNCHANGED <<command, run, cfg_dir, def_dir, chosen_path, pending, docs, chunks,
                   retrieved, response, outcome, stdout, prev_index, last_good>>

\* main.py 88-90: the value create_and_store_embeddings returned is dropped
MainIngestDone ==
    /\ pc = "after_store"
    /\ stdout' = stdout \cup {"Ingestion completed."}
    /\ outcome' = "exit0"
    /\ pc' = "idle"
    /\ UNCHANGED <<command, run, cfg_dir, def_dir, chosen_path, pending, docs, chunks, vectorstore,
                   index, retrieved, response, calls, failure, prev_index, last_good>>

----------------------------------------------------------------------------
(* query *)

IndexMissingText == "Index not found. Please run 'python main.py ingest' before querying."
NoRelevantText == "No relevant documents found."
UnavailableText == "The language model is temporarily unavailable. Please try again later."
GeneratedText == "generated answer"

\* main.py 92-101: the query command is entered and calls run_query
MainQuery ==
    /\ StartCommand("query")
    /\ pc' = "preflight"
    /\ UNCHANGED <<cfg_dir, def_dir>>

\* run_query returns r to main, which prints it and logs it (main.py 101-144)
Return(r) ==
    /\ response' = r
    /\ outcome' = "exit0"
    /\ pc' = "idle"

\* an exception leaves run_query; main does not catch it (main.py 101)
Raise(step) ==
    /\ failure' = failure \cup {step}
    /\ outcome' = "raised"
    /\ pc' = "idle"

\* Preflight with the early return lost: a missing index falls through to the load
Preflight_FallThrough ==
    /\ pc = "preflight"
    /\ pc' = "load"
    /\ UNCHANGED <<command, run, cfg_dir, def_dir, chosen_path, pending, docs, chunks, vectorstore,
                   index, retrieved, response, outcome, stdout, calls, failure, prev_index,
                   last_good>>

\* retriever.py 39-44: the check of INDEX_PATH
Preflight ==
    /\ pc = "preflight"
    /\ IF ~PathExists(index)
       THEN Return([result |-> IndexMissingText,
                    source_documents |-> <<>>,
                    usage |-> EmptyDict])
       ELSE /\ pc' = "load"
            /\ UNCHANGED <<response, outcome>>
    /\ UNCHANGED <<command, run, cfg_dir, def_dir, chosen_path, pending, docs, chunks, vectorstore,
                   index, retrieved, stdout, calls, failure, prev_index, last_good>>

\* retriever.py 49: FAISS.load_local reads the index at INDEX_PATH
LoadLocal ==
    /\ pc = "load"
    /\ calls' = calls \cup {"load_local"}
    /\ vectorstore' = Some(index.entries)
    /\ pc' = "embed_query"
    /\ UNCHANGED <<command, run, cfg_dir, def_dir, chosen_path, pending, docs, chunks, index,
                   retrieved, response, outcome, stdout, failure, prev_index, last_good>>

\* retriever.py 49: load_local raises (what is at INDEX_PATH cannot be read)
LoadLocalFail ==
    /\ pc = "load"
    /\ calls' = calls \cup {"load_local"}
    /\ Raise("load_local")
    /\ UNCHANGED <<command, run, cfg_dir, def_dir, chosen_path, pending, docs, chunks, vectorstore,
                   index, retrieved, response, stdout, prev_index, last_good>>

\* retriever.py 53: embedder.embed_query returns the query vector
EmbedQuery ==
    /\ pc = "embed_query"
    /\ calls' = calls \cup {"embed_query"}
    /\ pc' = "search"
    /\ UNCHANGED <<command, run, cfg_dir, def_dir, chosen_path, pending, docs, chunks, vectorstore,
                   index, retrieved, response, outcome, stdout, failure, prev_index, last_good>>

\* EmbedQueryFail with the call wrapped in a try that returns a degraded response
EmbedQueryFail_Degraded ==
    /\ pc = "embed_query"
    /\ calls' = calls \cup {"embed_query"}
    /\ failure' = failure \cup {"embed_query"}
    /\ Return([result |-> UnavailableText,
               source_documents |-> <<>>,
               usage |-> EmptyDict])
    /\ UNCHANGED <<command, run, cfg_dir, def_dir, chosen_path, pending, docs, chunks, vectorstore,
                   index, retrieved, stdout, prev_index, last_good>>

\* retriever.py 53: embedder.embed_query raises; nothing in run_query catches it
EmbedQueryFail ==
    /\ pc = "embed_query"
    /\ calls' = calls \cup {"embed_query"}
    /\ Raise("embed_query")
    /\ UNCHANGED <<command, run, cfg_dir, def_dir, chosen_path, pending, docs, chunks, vectorstore,
                   index, retrieved, response, stdout, prev_index, last_good>>

\* the subsequence of s at the positions in ps
RECURSIVE Pick(_, _)
Pick(s, ps) ==
    IF ps = {} THEN <<>>
    ELSE LET i == CHOOSE x \in ps : \A y \in ps : x <= y
         IN  <<s[i]>> \o Pick(s, ps \ {i})

\* retriever.py 57: the results similarity_search_by_vector may give for k:
\* any k entries of the store (which ones depends on the vectors), all of them
\* when the store holds fewer than k
SimilaritySearch(entries, k) ==
    {Pick(entries, ps) : ps \in {q \in SUBSET (1..Len(entries)) : Cardinality(q) = Min(k, Len(entries))}}

\* Search with the `if not docs` return lost: an empty result goes on to the prompt
Search_NoEmptyCheck ==
    /\ pc = "search"
    /\ calls' = calls \cup {"search"}
    /\ \E found \in SimilaritySearch(vectorstore.items, K) :
          retrieved' = found
    /\ pc' = "generate"
    /\ UNCHANGED <<command, run, cfg_dir, def_dir, chosen_path, pending, docs, chunks, vectorstore,
                   index, response, outcome, stdout, failure, prev_index, last_good>>

\* retriever.py 57-60: the search, and the early return when it found nothing
Search ==
    /\ pc = "search"
    /\ calls' = calls \cup {"search"}
    /\ \E found \in SimilaritySearch(vectorstore.items, K) :
          /\ retrieved' = found
          /\ IF found = <<>>
             THEN Return([result |-> NoRelevantText, source_documents |-> <<>>])
             ELSE /\ pc' = "generate"
                  /\ UNCHANGED <<response, outcome>>
    /\ UNCHANGED <<command, run, cfg_dir, def_dir, chosen_path, pending, docs, chunks, vectorstore,
                   index, stdout, failure, prev_index, last_good>>

\* retriever.py 57: a store loaded from a part-written index cannot map what the
\* search finds to its documents, and the search raises
SearchFail ==
    /\ pc = "search"
    /\ index.kind = "partial"
    /\ calls' = calls \cup {"search"}
    /\ Raise("search")
    /\ UNCHANGED <<command, run, cfg_dir, def_dir, chosen_path, pending, docs, chunks, vectorstore,
                   index, retrieved, response, stdout, prev_index, last_good>>

\* retriever.py 72-73: client.invoke_model returns a reply
InvokeModel ==
    /\ pc = "generate"
    /\ calls' = calls \cup {"invoke_model"}
    /\ pc' = "parse"
    /\ UNCHANGED <<command, run, cfg_dir, def_dir, chosen_path, pending, docs, chunks, vectorstore,
                   index, retrieved, response, outcome, stdout, failure, prev_index, last_good>>

\* retriever.py 74-80: client.invoke_model raises; the degraded response
InvokeModelFail ==
    /\ pc = "generate"
    /\ calls' = calls \cup {"invoke_model"}
    /\ failure' = failure \cup {"invoke_model"}
    /\ Return([result |-> UnavailableText,
               source_documents |-> retrieved,
               usage |-> EmptyDict])
    /\ UNCHANGED <<command, run, cfg_dir, def_dir, chosen_path, pending, docs, chunks, vectorstore,
                   index, retrieved, stdout, prev_index, last_good>>

\* retriever.py 92-96: int(maybe_str), None when it raises
ToInt(maybe_str) ==
    CASE maybe_str = "12"  -> 12
      [] maybe_str = "340" -> 340
      [] OTHER             -> "None"

\* headers.get(name): None when the header is missing
HeaderGet(headers, name) == IF name \in DOMAIN headers THEN headers[name] ELSE "None"

\* the HTTPHeaders a reply may carry
HeaderDicts ==
    { <<>>,
      [input_tokens |-> "12", output_tokens |-> "340", latency_ms |-> "340"],
      [input_tokens |-> "n/a", output_tokens |-> "12", latency_ms |-> "340"],
      [latency_ms |-> "12"] }

\* retriever.py 98-102
Usage(headers) ==
    [input_tokens  |-> ToInt(HeaderGet(headers, "input_tokens")),
     output_tokens |-> ToInt(HeaderGet(headers, "output_tokens")),
     latency_ms    |-> ToInt(HeaderGet(headers, "latency_ms"))]

\* retriever.py 82-108: the reply is read and parsed, and the response returned
ParseReply ==
    /\ pc = "parse"
    /\ \E headers \in HeaderDicts :
          Return([result |-> GeneratedText,
                  source_documents |-> retrieved,
                  usage |-> Usage(headers)])
    /\ UNCHANGED <<command, run, cfg_dir, def_dir, chosen_path, pending, docs, chunks, vectorstore,
                   index, retrieved, stdout, calls, failure, prev_index, last_good>>

\* retriever.py 82-84: reading the body, json.loads or the lookup of
\* results[0].outputText raises, outside the try of lines 72-80
ParseReplyFail ==
    /\ pc = "parse"
    /\ Raise("parse")
    /\ UNCHANGED <<command, run, cfg_dir, def_dir, chosen_path, pending, docs, chunks, vectorstore,
                   index, retrieved, response, stdout, calls, prev_index, last_good>>

Next ==
    \/ MainIngest
    \/ ChoosePath
    \/ LoadFile
    \/ LoadFinish
    \/ MainNoDocuments
    \/ FromDocuments
    \/ FromDocumentsFail
    \/ SaveLocal
    \/ SaveLocalFail
    \/ MainIngestDone
    \/ MainQuery
    \/ Preflight
    \/ LoadLocal
    \/ LoadLocalFail
    \/ EmbedQuery
    \/ EmbedQueryFail
    \/ Search
    \/ SearchFail
    \/ InvokeModel
    \/ InvokeModelFail
    \/ ParseReply
    \/ ParseReplyFail

Spec == Init /\ [][Next]_vars

----------------------------------------------------------------------------
(* Properties *)

\* the command has ended
Finished == pc = "idle" /\ outcome # "none"

IsResponse(r) == "result" \in DOMAIN r
HasUsage(r) == "usage" \in DOMAIN r
EmptyUsage(r) == HasUsage(r) /\ DOMAIN r.usage = {}

SupportedExts == {".pdf", ".docx", ".doc", ".txt"}
Loadable(f) == f.is_file /\ Lower(f.suffix) \in SupportedExts /\ f.readable

\* C1: a query whose generation step failed (invoke_model raised, or its reply
\* could not be read and parsed) ends with run_query returning the degraded
\* response: the unavailability message, the retrieved chunks as a non-empty
\* source list, an empty usage; it never raises.
C1_GenerationFailureDegrades ==
    (command = "query" /\ Finished /\ failure \cap {"invoke_model", "parse"} # {})
        => /\ outcome = "exit0"
           /\ IsResponse(response)
           /\ response.result = UnavailableText
           /\ response.source_documents = retrieved
           /\ retrieved # <<>>
           /\ EmptyUsage(response)

\* C2: once embedding or persistence has failed in an ingest run, the persisted
\* index is what it was when the run started.
C2_FailedIngestLeavesIndex ==
    (command = "ingest" /\ failure \cap {"embed_documents", "save_local"} # {})
        => index = prev_index

\* C3: an ingest command in which create_and_store_embeddings failed ends in a
\* failure outcome and does not report that ingestion completed.
C3_StoreFailureSurfaced ==
    (command = "ingest" /\ Finished /\ failure \cap {"embed_documents", "save_local"} # {})
        => /\ outcome # "exit0"
           /\ "Ingestion completed." \notin stdout

\* C4: with nothing at INDEX_PATH a query stops at the preflight step: it makes
\* no load, embedding, search or generation call, and run_query returns the
\* index-missing answer with an empty source list and an empty usage.
C4_MissingIndexPreflight ==
    (command = "query" /\ ~PathExists(index))
        => /\ pc \in {"preflight", "idle"}
           /\ calls = {}
           /\ failure = {}
           /\ pc = "idle" =>
                /\ outcome = "exit0"
                /\ IsResponse(response)
                /\ response.result = IndexMissingText
                /\ response.source_documents = <<>>
                /\ EmptyUsage(response)

C4_Witness ==
    /\ command = "query"
    /\ Finished
    /\ ~PathExists(index)
    /\ IsResponse(response)
    /\ response.result = IndexMissingText

\* C5: once the loader is past its loop over a chosen folder it has enumerated
\* every file, and docs holds the Documents of exactly the supported files that
\* were read, nothing of a file whose read failed or whose extension is not
\* supported.
C5_BadFileSkipped ==
    (command = "ingest" /\ chosen_path # "none" /\ pc \notin {"choose_path", "load_loop"})
        => /\ pending = <<>>
           /\ {d.source : d \in Range(docs)} = {f.name : f \in {g \in ChosenDir.files : Loadable(g)}}
           /\ \A f \in ChosenDir.files :
                Cardinality({i \in 1..Len(docs) : docs[i].source = f.name})
                    = IF Loadable(f) THEN Len(f.texts) ELSE 0

C5_Witness ==
    /\ command = "ingest"
    /\ pc = "after_load"
    /\ "read" \in failure
    /\ Cardinality({d.source : d \in Range(docs)}) = 2
    /\ Cardinality(ChosenDir.files) = 3

\* the configured folder is missing, is empty or holds no readable supported file
CfgHasNoDocuments ==
    \/ ~cfg_dir.exists
    \/ \A f \in cfg_dir.files : ~Loadable(f)

NoDocumentsOutcome ==
    /\ outcome = "exit1"
    /\ chunks.isNone
    /\ "embed_documents" \notin calls
    /\ index = prev_index

\* C6 as stated: whenever the configured folder is missing, is empty or holds
\* no readable supported file, the ingest command ends with the no-documents
\* outcome.
C6_ConfiguredFolderOnly ==
    (command = "ingest" /\ Finished /\ CfgHasNoDocuments) => NoDocumentsOutcome

CfgUsable == "unset" \notin DOMAIN cfg_dir /\ cfg_dir.exists /\ cfg_dir.files # {}
DefUsable == def_dir.exists /\ def_dir.files # {}
CandidateFiles == IF CfgUsable THEN cfg_dir.files ELSE def_dir.files

\* C6 amended: whenever neither the configured folder nor the default documents
\* folder exists and is non-empty, or the first of them that does holds no
\* readable supported file, the loader returns None, the command exits 1, no
\* embedding call is made and the persisted index is unchanged.
C6_NoDocumentsFailsFast ==
    (/\ command = "ingest"
     /\ Finished
     /\ \/ ~CfgUsable /\ ~DefUsable
        \/ \A f \in CandidateFiles : ~Loadable(f))
        => NoDocumentsOutcome

C6_Witness ==
    /\ command = "ingest"
    /\ Finished
    /\ CfgUsable
    /\ \A f \in cfg_dir.files : ~Loadable(f)
    /\ "read" \in failure
    /\ outcome = "exit1"
    /\ PathExists(index)

\* C7: between commands, once an ingest run has succeeded, the persisted index
\* holds exactly the chunks of the most recent successful run, one entry each.
C7_IndexIsLastSuccessfulRun ==
    (pc = "idle" /\ ~last_good.isNone)
        => /\ index.kind = "complete"
           /\ index.entries = last_good.items

C9_EmbedFailurePropagates ==
    (command = "query" /\ "embed_query" \in failure)
        => /\ Finished
           /\ outcome = "raised"
           /\ ~IsResponse(response)
           /\ "search" \notin calls
           /\ "invoke_model" \notin calls

C9_Witness ==
    /\ command = "query"
    /\ "embed_query" \in failure
    /\ "load_local" \in calls
    /\ outcome = "raised"

\* C10: every response run_query returns holds result, source_documents and
\* usage, the usage being empty when no generation reply was obtained.
C10_ResponseHasAllFields ==
    (command = "query" /\ Finished /\ outcome = "exit0")
        => /\ IsResponse(response)
           /\ "source_documents" \in DOMAIN response
           /\ HasUsage(response)
           /\ ("invoke_model" \notin calls \/ "invoke_model" \in failure) => EmptyUsage(response)

====
